---- MODULE Spec2Model ----
(***************************************************************************)
(* Model of cps/metadata_provider/aladin.py: the Aladin metadata provider. *)
(*                                                                         *)
(* Python values are modelled as tagged records: None is [t |-> "None"],   *)
(* a str held where None is possible is [t |-> "str", v |-> chars], a list *)
(* returned where None is possible is [t |-> "list", v |-> sequence].      *)
(* Text on which the code calls strip() or tests `in` is a sequence of     *)
(* one-character strings, so both are computed, not assumed.               *)
(***************************************************************************)
EXTENDS Integers, Sequences, FiniteSets, TLC

VARIABLES
    active,          \* Metadata.active: the provider is switched on
    response,        \* what the site answers to the GET of the call under study
    detail_answers,  \* search(): what the site may answer to a detail-page GET
    generic_cover,   \* the caller's generic_cover argument
    pc,              \* position of the calling thread
    ret,             \* the value the call returned (meaningful once pc = "returned")
    book_id_list,    \* search(): the local book_id_list
    future_list,     \* search(): the futures, in submission order
    num_threads,     \* executor: worker threads started so far
    exited,          \* executor: worker threads that have returned
    idle_semaphore,  \* executor: the idle-worker semaphore
    shutdown,        \* executor: the shutdown flag
    val,             \* search(): the local val
    requests         \* number of detail-page GETs issued so far

vars == <<active, response, detail_answers, generic_cover, pc, ret, book_id_list, future_list,
          num_threads, exited, idle_semaphore, shutdown, val, requests>>

-----------------------------------------------------------------------------
(* Bounds of the model *)

\* longest sub-title fragment list drawn in SpecParse
MaxFrags == 4
\* longest search-results page (in item nodes) drawn in SpecIds
MaxNodes == 11
\* longest search-results page drawn exhaustively in Spec
MaxShortPage == 3

-----------------------------------------------------------------------------
(* Python values *)

PyNone == [t |-> "None"]
PyStr(s) == [t |-> "str", v |-> s]
PyList(s) == [t |-> "list", v |-> s]
Raise(e) == [t |-> "raise", exc |-> e]

IsWhite(c) == c = " "

RECURSIVE LStrip(_)
LStrip(s) == IF s # <<>> /\ IsWhite(Head(s)) THEN LStrip(Tail(s)) ELSE s

RECURSIVE RStrip(_)
RStrip(s) ==
    IF s # <<>> /\ IsWhite(s[Len(s)]) THEN RStrip(SubSeq(s, 1, Len(s) - 1)) ELSE s

\* str.strip()
Strip(s) == RStrip(LStrip(s))

\* `needle in hay` for two str
Contains(needle, hay) ==
    \E k \in 0..(Len(hay) - Len(needle)) : SubSeq(hay, k + 1, k + Len(needle)) = needle

\* bool(v) for the values the code tests
Truthy(v) ==
    CASE v.t = "None" -> FALSE
      [] v.t = "str"  -> v.v # <<>>
      [] v.t = "list" -> v.v # <<>>
      [] OTHER        -> TRUE

\* seq[k] with Python's 0-based index, negative k counting from the end
PyIndex(seq, k) == IF k < 0 THEN seq[Len(seq) + k + 1] ELSE seq[k + 1]

-----------------------------------------------------------------------------
(* Class constants *)

MAX_ITEMS == 10
AUTHOR_END_MARK == <<"(", "A", ")">>
BOOK_URL == "https://www.aladin.co.kr/shop/wproduct.aspx"
META_URL == "https://www.aladin.co.kr/"
DESCRIPTION == "aladin.co.kr"

-----------------------------------------------------------------------------
(* _http_get: the parsed tree, or None on any network, status or parse error *)

HttpError == [status |-> "error"]
HttpOk(tree) == [status |-> "ok", html |-> tree]

_http_get(r) == IF r.status = "ok" THEN r.html ELSE PyNone

-----------------------------------------------------------------------------
(* _search_book_id *)

\* A result-item node is its attrib dict, a set of <<key, value>> pairs.
HasAttr(element, key) == \E kv \in element : kv[1] = key
Attr(element, key) == (CHOOSE kv \in element : kv[1] = key)[2]

\* seq[:n]
Take(seq, n) == SubSeq(seq, 1, IF Len(seq) < n THEN Len(seq) ELSE n)

RECURSIVE ItemIds(_)
ItemIds(item_elements) ==
    IF item_elements = <<>> THEN <<>>
    ELSE LET element == Head(item_elements)
         IN  (IF HasAttr(element, "itemid") THEN <<Attr(element, "itemid")>> ELSE <<>>)
             \o ItemIds(Tail(item_elements))

\* _search_book_id without the [:10] slice
_search_book_id_unsliced(r) ==
    LET html == _http_get(r)
    IN  IF html = PyNone THEN PyNone
        ELSE PyList(ItemIds(html.ss_book_box))

_search_book_id(r) ==
    LET html == _http_get(r)
    IN  IF html = PyNone THEN PyNone
        ELSE PyList(ItemIds(Take(html.ss_book_box, 10)))

-----------------------------------------------------------------------------
(* _parse_author_and_publisher *)

\* the first loop with the append placed before the marker test
RECURSIVE AuthorScan_append_first(_, _, _)
AuthorScan_append_first(sub, i, authors) ==
    IF i = Len(sub) THEN [i |-> i, authors |-> authors]
    ELSE LET author == Strip(PyIndex(sub, i))
             appended == IF author # <<",">> /\ author # <<>>
                         THEN Append(authors, author) ELSE authors
         IN  IF Contains(AUTHOR_END_MARK, author)
             THEN [i |-> i + 1, authors |-> appended]
             ELSE AuthorScan_append_first(sub, i + 1, appended)

\* first while loop: i and authors when it ends
RECURSIVE AuthorScan(_, _, _)
AuthorScan(sub, i, authors) ==
    IF i = Len(sub) THEN [i |-> i, authors |-> authors]
    ELSE LET author == Strip(PyIndex(sub, i))
         IN  IF Contains(AUTHOR_END_MARK, author)
             THEN [i |-> i + 1, authors |-> authors]
             ELSE AuthorScan(sub, i + 1,
                             IF author # <<",">> /\ author # <<>>
                             THEN Append(authors, author) ELSE authors)

\* the second loop comparing the fragment without strip()
RECURSIVE DateScan_unstripped(_, _, _)
DateScan_unstripped(sub, i, date_string) ==
    IF i # Len(sub) /\ PyIndex(sub, i) # date_string
    THEN DateScan_unstripped(sub, i + 1, date_string)
    ELSE i

\* second while loop: i when it ends
RECURSIVE DateScan(_, _, _)
DateScan(sub, i, date_string) ==
    IF i # Len(sub) /\ Strip(PyIndex(sub, i)) # date_string
    THEN DateScan(sub, i + 1, date_string)
    ELSE i

_parse_author_and_publisher(html) ==
    IF html.Ere_sub2_title = <<>> THEN Raise("IndexError")
    ELSE LET sub == html.Ere_sub2_title[1].itertext
             a == AuthorScan(sub, 0, <<>>)
         IN  IF html.datePublished = <<>> THEN Raise("IndexError")
             ELSE IF html.datePublished[1].content.t # "str" THEN Raise("AttributeError")
             ELSE LET date_string == Strip(html.datePublished[1].content.v)
                      i == DateScan(sub, a.i, date_string)
                  IN  [t |-> "tuple",
                       authors |-> a.authors,
                       publisher |-> IF i # Len(sub) THEN PyIndex(sub, i - 1) ELSE <<>>]

-----------------------------------------------------------------------------
(* _fetch_book *)

\* float(html.xpath(...)): float() of a list raises TypeError, whatever the list holds
PyFloatOfList(nodes) == Raise("TypeError")

\* the inner try/except: raiting is 0 when the try raises, else
\* int(raiting_10 // 2 + 0.5), the floored half
Raiting(html) ==
    LET raiting_10 == PyFloatOfList(html.Ere_str)
    IN  IF raiting_10.t = "raise" THEN 0
        ELSE raiting_10.v \div 2

MetaSourceInfo == [id |-> "aladin", description |-> DESCRIPTION, link |-> META_URL]

\* _fetch_book with a missing title tag read as None instead of raising
_fetch_book_partial(id, cover_arg, r) ==
    LET html == _http_get(r)
    IN  IF html = PyNone THEN PyNone
        ELSE LET parsed == _parse_author_and_publisher(html)
             IN  IF \/ parsed.t = "raise"
                    \/ html.og_image = <<>>
                    \/ html.og_description = <<>>
                    \/ html.isbn = <<>>
                 THEN PyNone
                 ELSE [t |-> "MetaRecord",
                       id |-> id,
                       title |-> IF html.og_title = <<>> THEN PyNone
                                 ELSE html.og_title[1].content,
                       authors |-> parsed.authors,
                       url |-> <<BOOK_URL, "?ItemId=", id>>,
                       source |-> MetaSourceInfo,
                       cover |-> IF Truthy(html.og_image[1].content)
                                 THEN html.og_image[1].content ELSE cover_arg,
                       description |-> html.og_description[1].content,
                       identifiers |-> [isbn |-> html.isbn[1].content],
                       publisher |-> parsed.publisher,
                       publishedDate |-> html.datePublished[1].content,
                       rating |-> Raiting(html)]

\* Every xpath(...)[0] of the outer try raises IndexError on an empty result, and
\* the outer except turns any exception into None.
_fetch_book(id, cover_arg, r) ==
    LET html == _http_get(r)
    IN  IF html = PyNone THEN PyNone
        ELSE IF html.og_title = <<>> THEN PyNone
        ELSE LET parsed == _parse_author_and_publisher(html)
             IN  IF \/ parsed.t = "raise"
                    \/ html.og_image = <<>>
                    \/ html.og_description = <<>>
                    \/ html.isbn = <<>>
                 THEN PyNone
                 ELSE [t |-> "MetaRecord",
                       id |-> id,
                       title |-> html.og_title[1].content,
                       authors |-> parsed.authors,
                       url |-> <<BOOK_URL, "?ItemId=", id>>,
                       source |-> MetaSourceInfo,
                       cover |-> IF Truthy(html.og_image[1].content)
                                 THEN html.og_image[1].content ELSE cover_arg,
                       description |-> html.og_description[1].content,
                       identifiers |-> [isbn |-> html.isbn[1].content],
                       publisher |-> parsed.publisher,
                       publishedDate |-> html.datePublished[1].content,
                       rating |-> Raiting(html)]

-----------------------------------------------------------------------------
(* Values shared by the specifications *)

NoCall ==
    /\ detail_answers = {}
    /\ book_id_list = PyNone
    /\ future_list = <<>>
    /\ num_threads = 0
    /\ exited = 0
    /\ idle_semaphore = 0
    /\ shutdown = FALSE
    /\ val = <<>>
    /\ requests = 0

NoCallUnchanged ==
    UNCHANGED <<active, response, detail_answers, generic_cover, book_id_list, future_list,
                num_threads, exited, idle_semaphore, shutdown, val, requests>>

\* every sequence over S of length at most n
SeqsUpTo(S, n) == UNION {[1..k -> S] : k \in 0..n}

Meta(content) == <<[content |-> content]>>

-----------------------------------------------------------------------------
(* SpecIds: _search_book_id applied to every search-results page *)

BoxClass == <<"class", "ss_book_box">>
ItemNodes == {{BoxClass}, {BoxClass, <<"itemid", "a">>}, {BoxClass, <<"itemid", "b">>}}

InitIds ==
    /\ active = TRUE
    /\ generic_cover = PyStr(<<>>)
    /\ response \in {HttpError}
                    \cup {HttpOk([ss_book_box |-> p]) : p \in SeqsUpTo(ItemNodes, MaxNodes)}
    /\ pc = "call"
    /\ ret = PyNone
    /\ NoCall

CallSearchBookId ==
    /\ pc = "call"
    /\ ret' = _search_book_id(response)
    /\ pc' = "returned"
    /\ NoCallUnchanged

NextIds == CallSearchBookId

SpecIds == InitIds /\ [][NextIds]_vars

-----------------------------------------------------------------------------
(* SpecParse: _parse_author_and_publisher applied to every sub-title block *)

Frags ==
    { <<>>,
      <<",">>,
      <<" ", ",">>,
      <<"J">>,
      <<" ", "J", " ">>,
      <<"(", "A", ")">>,
      <<"J", " ", "(", "A", ")">>,
      <<"(", "A">>,
      <<"P", " ">>,
      <<"D">>,
      <<" ", "D">> }

DateContents == {PyStr(<<"D">>), PyStr(<<" ", "D", " ">>)}

InitParse ==
    /\ active = TRUE
    /\ generic_cover = PyStr(<<>>)
    /\ response \in {HttpOk([Ere_sub2_title |-> <<[itertext |-> sub]>>,
                             datePublished |-> Meta(d)]) :
                        sub \in SeqsUpTo(Frags, MaxFrags), d \in DateContents}
    /\ pc = "call"
    /\ ret = PyNone
    /\ NoCall

CallParse ==
    /\ pc = "call"
    /\ ret' = _parse_author_and_publisher(_http_get(response))
    /\ pc' = "returned"
    /\ NoCallUnchanged

NextParse == CallParse

SpecParse == InitParse /\ [][NextParse]_vars

-----------------------------------------------------------------------------
(* SpecFetch: _fetch_book applied to every detail page *)

ExampleBlock == << <<"J">>, <<"(", "A", ")">>, <<"P", " ">>, <<"D">> >>

TitleTags == {<<>>, Meta(PyNone), Meta(PyStr(<<"T">>))}
SubTitleTags == {<<>>, <<[itertext |-> ExampleBlock]>>, <<[itertext |-> << <<"J">> >>]>>}
CoverTags == {<<>>, Meta(PyNone), Meta(PyStr(<<>>)), Meta(PyStr(<<"c">>))}
DescriptionTags == {<<>>, Meta(PyNone), Meta(PyStr(<<"d">>))}
IsbnTags == {<<>>, Meta(PyStr(<<"9">>))}
DateTags == {<<>>, Meta(PyNone), Meta(PyStr(<<"D">>)), Meta(PyStr(<<" ", "D", " ">>))}
RatingTags ==
    { <<>>,
      <<[text |-> <<"8", ".", "5">>]>>,
      <<[text |-> <<" ", "9", ".", "0", " ">>]>>,
      <<[text |-> <<"x">>]>> }

DetailPages ==
    [og_title : TitleTags, Ere_sub2_title : SubTitleTags, og_image : CoverTags,
     og_description : DescriptionTags, isbn : IsbnTags, datePublished : DateTags,
     Ere_str : RatingTags]

GenericCovers == {PyStr(<<>>), PyStr(<<"g">>)}

\* the id argument of the call under study
BookId == book_id_list.v[1]

InitFetch ==
    /\ active = TRUE
    /\ generic_cover \in GenericCovers
    /\ response \in {HttpError} \cup {HttpOk(page) : page \in DetailPages}
    /\ pc = "call"
    /\ ret = PyNone
    /\ detail_answers = {}
    /\ book_id_list = PyList(<<"a">>)
    /\ future_list = <<>>
    /\ num_threads = 0
    /\ exited = 0
    /\ idle_semaphore = 0
    /\ shutdown = FALSE
    /\ val = <<>>
    /\ requests = 0

CallFetchBook ==
    /\ pc = "call"
    /\ ret' = _fetch_book(BookId, generic_cover, response)
    /\ pc' = "returned"
    /\ requests' = requests + 1
    /\ UNCHANGED <<active, response, detail_answers, generic_cover, book_id_list, future_list,
                   num_threads, exited, idle_semaphore, shutdown, val>>

NextFetch == CallFetchBook

SpecFetch == InitFetch /\ [][NextFetch]_vars

-----------------------------------------------------------------------------
(* Spec: search(), with its ThreadPoolExecutor and the worker threads *)

MAX_WORKERS == 5

GoodPage ==
    [og_title |-> Meta(PyStr(<<"T">>)),
     Ere_sub2_title |-> <<[itertext |-> ExampleBlock]>>,
     og_image |-> Meta(PyStr(<<"c">>)),
     og_description |-> Meta(PyStr(<<"d">>)),
     isbn |-> Meta(PyStr(<<"9">>)),
     datePublished |-> Meta(PyStr(<<"D">>)),
     Ere_str |-> <<>>]

\* what a site with failing and incomplete detail pages may answer to a GET
DetailResponses ==
    {HttpError, HttpOk(GoodPage), HttpOk([GoodPage EXCEPT !.og_title = <<>>])}

ItemA == {BoxClass, <<"itemid", "a">>}

\* a page listing one item more than MAX_ITEMS
LongPage == [j \in 1..(MAX_ITEMS + 1) |-> ItemA]

\* a page listing one item more than the pool has workers
BusyPage == [j \in 1..(MAX_WORKERS + 1) |-> ItemA]

\* The searches of the model: a results page and what the site may answer to
\* the detail-page GETs. Every short page and the busy page go with a site whose
\* detail pages may fail or lack the title; the long page goes with a site
\* that serves every detail page complete.
Searches ==
    ( ({HttpError} \cup {HttpOk([ss_book_box |-> p]) :
                            p \in SeqsUpTo(ItemNodes, MaxShortPage) \cup {BusyPage}})
      \X {DetailResponses} )
    \cup {<<HttpOk([ss_book_box |-> LongPage]), {HttpOk(GoodPage)}>>}

Init ==
    /\ active \in BOOLEAN
    /\ generic_cover = PyStr(<<"g">>)
    /\ \E search \in Searches :
          /\ response = search[1]
          /\ detail_answers = search[2]
    /\ pc = "call"
    /\ ret = PyNone
    /\ book_id_list = PyNone
    /\ future_list = <<>>
    /\ num_threads = 0
    /\ exited = 0
    /\ idle_semaphore = 0
    /\ shutdown = FALSE
    /\ val = <<>>
    /\ requests = 0

Futures == 1..Len(future_list)
Count(state) == Cardinality({k \in Futures : future_list[k].state = state})

\* worker threads blocked on the work queue
FreeWorkers == num_threads - exited - Count("RUNNING")

\* search() returning val, the empty list, where it returns None
SearchStart_returns_val ==
    /\ pc = "call"
    /\ IF ~active
       THEN /\ ret' = PyList(val)
            /\ pc' = "returned"
            /\ UNCHANGED book_id_list
       ELSE LET ids == _search_book_id(response)
            IN  IF ~Truthy(ids)
                THEN /\ ret' = PyList(val)
                     /\ pc' = "returned"
                     /\ UNCHANGED book_id_list
                ELSE /\ book_id_list' = ids
                     /\ pc' = "submit"
                     /\ UNCHANGED ret
    /\ UNCHANGED <<active, response, detail_answers, generic_cover, future_list,
                   num_threads, exited, idle_semaphore, shutdown, val, requests>>

\* search() up to the `with`: the early returns, or the executor is created
SearchStart ==
    /\ pc = "call"
    /\ IF ~active
       THEN /\ ret' = PyList(val)
            /\ pc' = "returned"
            /\ UNCHANGED book_id_list
       ELSE LET ids == _search_book_id(response)
            IN  IF ~Truthy(ids)
                THEN /\ ret' = PyNone
                     /\ pc' = "returned"
                     /\ UNCHANGED book_id_list
                ELSE /\ book_id_list' = ids
                     /\ pc' = "submit"
                     /\ UNCHANGED ret
    /\ UNCHANGED <<active, response, detail_answers, generic_cover, future_list, num_threads, exited,
                   idle_semaphore, shutdown, val, requests>>

\* executor.submit(self._fetch_book, book_id, generic_cover) for the next id:
\* the work item is queued and a thread is started unless a worker is idle or
\* max_workers threads exist
Submit ==
    /\ pc = "submit"
    /\ LET book_id == book_id_list.v[Len(future_list) + 1]
       IN  future_list' = Append(future_list,
               [id |-> book_id, state |-> "PENDING", result |-> PyNone])
    /\ IF idle_semaphore > 0
       THEN /\ idle_semaphore' = idle_semaphore - 1
            /\ UNCHANGED num_threads
       ELSE /\ num_threads' = IF num_threads < MAX_WORKERS THEN num_threads + 1
                              ELSE num_threads
            /\ UNCHANGED idle_semaphore
    /\ pc' = IF Len(future_list) + 1 = Len(book_id_list.v) THEN "collect" ELSE "submit"
    /\ UNCHANGED <<active, response, detail_answers, generic_cover, ret, book_id_list, exited,
                   shutdown, val, requests>>

\* a worker thread takes the oldest queued work item and issues its GET
WorkerRun ==
    /\ FreeWorkers > 0
    /\ \E k \in Futures :
          /\ future_list[k].state = "PENDING"
          /\ \A j \in 1..(k - 1) : future_list[j].state # "PENDING"
          /\ future_list' = [future_list EXCEPT ![k].state = "RUNNING"]
    /\ requests' = requests + 1
    /\ UNCHANGED <<active, response, detail_answers, generic_cover, pc, ret, book_id_list, num_threads,
                   exited, idle_semaphore, shutdown, val>>

\* the site answers and _fetch_book returns: the future is set and the worker
\* releases the idle semaphore
WorkerFinish ==
    \E k \in Futures, r \in detail_answers :
        /\ future_list[k].state = "RUNNING"
        /\ future_list' = [future_list EXCEPT
               ![k].state = "FINISHED",
               ![k].result = _fetch_book(future_list[k].id, generic_cover, r)]
        /\ idle_semaphore' = idle_semaphore + 1
        /\ UNCHANGED <<active, response, detail_answers, generic_cover, pc, ret, book_id_list,
                       num_threads, exited, shutdown, val, requests>>

\* the results of the futures at the indices I, in every order
RECURSIVE Orders(_)
Orders(I) ==
    IF I = {} THEN {<<>>}
    ELSE LET firsts == {k \in I : \A j \in I :
                           future_list[j].result = future_list[k].result => k <= j}
         IN  UNION {{<<future_list[k].result>> \o rest : rest \in Orders(I \ {k})} :
                    k \in firsts}

\* the comprehension over as_completed, written without the `if future.result()` filter
Collect_unfiltered ==
    /\ pc = "collect"
    /\ \A k \in Futures : future_list[k].state = "FINISHED"
    /\ val' \in Orders(Futures)
    /\ pc' = "exit"
    /\ UNCHANGED <<active, response, detail_answers, generic_cover, ret, book_id_list,
                   future_list, num_threads, exited, idle_semaphore, shutdown, requests>>

\* val = [future.result() for future in as_completed(future_list) if future.result()]
\* as_completed blocks until every future is finished and yields them in an order
\* set by the timing of the workers: val is the truthy results in any order.
Collect ==
    /\ pc = "collect"
    /\ \A k \in Futures : future_list[k].state = "FINISHED"
    /\ val' \in Orders({k \in Futures : Truthy(future_list[k].result)})
    /\ pc' = "exit"
    /\ UNCHANGED <<active, response, detail_answers, generic_cover, ret, book_id_list,
                   future_list, num_threads, exited, idle_semaphore, shutdown, requests>>

\* the `with` block is left: shutdown(wait=True) sets the flag and wakes the workers
ExecutorExit ==
    /\ pc = "exit"
    /\ shutdown' = TRUE
    /\ pc' = "join"
    /\ UNCHANGED <<active, response, detail_answers, generic_cover, ret, book_id_list,
                   future_list, num_threads, exited, idle_semaphore, val, requests>>

\* a worker blocked on the empty queue sees the shutdown and returns
WorkerExit ==
    /\ shutdown
    /\ Count("PENDING") = 0
    /\ FreeWorkers > 0
    /\ exited' = exited + 1
    /\ UNCHANGED <<active, response, detail_answers, generic_cover, pc, ret, book_id_list, future_list,
                   num_threads, idle_semaphore, shutdown, val, requests>>

\* shutdown(wait=False): search() returns without joining the threads
Join_nowait ==
    /\ pc = "join"
    /\ ret' = PyList(val)
    /\ pc' = "returned"
    /\ UNCHANGED <<active, response, detail_answers, generic_cover, book_id_list, future_list,
                   num_threads, exited, idle_semaphore, shutdown, val, requests>>

\* shutdown(wait=True) has joined every thread; search() returns val
Join ==
    /\ pc = "join"
    /\ exited = num_threads
    /\ ret' = PyList(val)
    /\ pc' = "returned"
    /\ UNCHANGED <<active, response, detail_answers, generic_cover, book_id_list, future_list,
                   num_threads, exited, idle_semaphore, shutdown, val, requests>>

Next ==
    \/ SearchStart
    \/ Submit
    \/ WorkerRun
    \/ WorkerFinish
    \/ Collect
    \/ ExecutorExit
    \/ WorkerExit
    \/ Join

Spec == Init /\ [][Next]_vars

-----------------------------------------------------------------------------
(* Properties of _fetch_book, checked under SpecFetch *)

Page == response.html

Located(tag) == tag # <<>>

RequiredLocated ==
    /\ Located(Page.og_title)
    /\ Located(Page.Ere_sub2_title)
    /\ Located(Page.og_description)
    /\ Located(Page.isbn)
    /\ Located(Page.datePublished)

\* C1: for a fetched detail page, _fetch_book returns a record only if the title
\* tag, the sub-title block, the description tag, the isbn tag and the
\* datePublished tag were all located, and then every field of the record is
\* the value read from its tag; otherwise it returns None.
C1_RecordOnlyIfAllLocated ==
    (pc = "returned" /\ response.status = "ok") =>
        /\ ret.t \in {"None", "MetaRecord"}
        /\ ~RequiredLocated => ret = PyNone
        /\ ret.t = "MetaRecord" =>
              /\ RequiredLocated
              /\ ret.id = BookId
              /\ ret.title = Page.og_title[1].content
              /\ ret.description = Page.og_description[1].content
              /\ ret.identifiers.isbn = Page.isbn[1].content
              /\ ret.publishedDate = Page.datePublished[1].content

\* a page that lacks only the title tag, for which None was returned
C1_Witness ==
    /\ pc = "returned"
    /\ response.status = "ok"
    /\ ~Located(Page.og_title)
    /\ Located(Page.Ere_sub2_title)
    /\ Located(Page.og_image)
    /\ Located(Page.og_description)
    /\ Located(Page.isbn)
    /\ Located(Page.datePublished)
    /\ Page.datePublished[1].content.t = "str"
    /\ ret = PyNone

\* C2: when og:image is absent from a page whose required fields are all
\* present, a record is still returned and its cover is generic_cover.
C2_MissingCoverFallsBack ==
    ( /\ pc = "returned"
      /\ response.status = "ok"
      /\ RequiredLocated
      /\ Page.datePublished[1].content.t = "str"
      /\ ~Located(Page.og_image) ) =>
        /\ ret.t = "MetaRecord"
        /\ ret.cover = generic_cover

Digits == <<"0", "1", "2", "3", "4", "5", "6", "7", "8", "9">>
IsDigit(c) == \E n \in 1..10 : Digits[n] = c
DigitVal(c) == (CHOOSE n \in 1..10 : Digits[n] = c) - 1

\* the rating text is "d.d" once trimmed
RatingParses(text) ==
    LET s == Strip(text)
    IN  Len(s) = 3 /\ IsDigit(s[1]) /\ s[2] = "." /\ IsDigit(s[3])

\* ten times the value of a rating text that parses
RatingTenths(text) ==
    LET s == Strip(text) IN 10 * DigitVal(s[1]) + DigitVal(s[3])

\* C3: when the rating element is present and its text parses to v on the 0-10
\* scale, the record's rating is int(v/2 + 0.5), which is (10v + 10) \div 20.
C3_RatingIsHalfRoundedUp ==
    ( /\ pc = "returned"
      /\ ret.t = "MetaRecord"
      /\ Located(Page.Ere_str)
      /\ RatingParses(Page.Ere_str[1].text) ) =>
        ret.rating = (RatingTenths(Page.Ere_str[1].text) + 10) \div 20

-----------------------------------------------------------------------------
(* Properties of _search_book_id, checked under SpecIds *)

\* the position of j among the members of a set of indices, counted from 1
Rank(idx, j) == Cardinality({m \in idx : m <= j})

PageNodes == response.html.ss_book_box

\* positions, among the first 10 result-item nodes, of those carrying itemid
IdPositions ==
    {j \in 1..Len(PageNodes) : j <= 10 /\ HasAttr(PageNodes[j], "itemid")}

\* C7: for a fetched search-results page the extractor returns at most 10
\* identifiers: exactly, in page order, the itemid values of those among the
\* first 10 result-item nodes that carry the attribute.
C7_IdsAreFirstTenWithItemid ==
    (pc = "returned" /\ response.status = "ok") =>
        /\ ret.t = "list"
        /\ Len(ret.v) <= 10
        /\ Len(ret.v) = Cardinality(IdPositions)
        /\ LET idx == IdPositions
           IN  \A j \in idx : ret.v[Rank(idx, j)] = Attr(PageNodes[j], "itemid")

\* a page of more than 10 nodes, the 11th with an itemid, some of the first 10
\* without one, and two different ids returned
C7_Witness ==
    /\ pc = "returned"
    /\ response.status = "ok"
    /\ Len(PageNodes) > 10
    /\ HasAttr(PageNodes[11], "itemid")
    /\ \E j \in 1..10 : ~HasAttr(PageNodes[j], "itemid")
    /\ \E k, l \in 1..Len(ret.v) : ret.v[k] # ret.v[l]

-----------------------------------------------------------------------------
(* Properties of search(), checked under Spec *)

\* the number of members of seq that satisfy Test
CountIn(seq, Test(_)) == Cardinality({k \in 1..Len(seq) : Test(seq[k])})

FailedFutures == {k \in Futures : future_list[k].result = PyNone}

\* search() has returned from the `with` block
ReturnedFromPool == pc = "returned" /\ future_list # <<>>

\* C4: whatever the order in which the workers run and finish, the number of
\* records search() returns is the number of ids minus the number of ids whose
\* task returned None, and each task that returned a record contributes that
\* record exactly once.
C4_OneRecordPerSucceededTask ==
    ReturnedFromPool =>
        /\ ret.t = "list"
        /\ Len(future_list) = Len(book_id_list.v)
        /\ Len(ret.v) = Len(book_id_list.v) - Cardinality(FailedFutures)
        /\ Len(ret.v) <= Len(book_id_list.v)
        /\ \A k \in Futures \ FailedFutures :
              LET Same(x) == x = future_list[k].result
              IN  CountIn(ret.v, Same) =
                      Cardinality({j \in Futures : Same(future_list[j].result)})

\* three ids, of which one task failed and two returned a record
C4_Witness ==
    /\ ReturnedFromPool
    /\ Len(book_id_list.v) = 3
    /\ Cardinality(FailedFutures) = 1
    /\ Len(ret.v) = 2

\* C5: when search() returns after fanning out, every submitted task is
\* finished and every worker thread of the pool has returned.
C5_NothingOutlivesTheCall ==
    ReturnedFromPool =>
        /\ Len(future_list) = Len(book_id_list.v)
        /\ \A k \in Futures : future_list[k].state = "FINISHED"
        /\ num_threads >= 1
        /\ exited = num_threads

\* a call that queued more tasks than the pool has workers and used all of them
C5_Witness ==
    /\ ReturnedFromPool
    /\ Len(future_list) > MAX_WORKERS
    /\ num_threads = MAX_WORKERS
    /\ exited = MAX_WORKERS

\* C6: when the provider is active and the GET of the search-results page
\* fails, search() returns None, not a list, and issues no detail-page GET.
C6_FailedSearchReturnsNone ==
    (active /\ response.status = "error") =>
        /\ requests = 0
        /\ future_list = <<>>
        /\ pc \in {"call", "returned"}
        /\ pc = "returned" => ret = PyNone

\* an active provider whose search GET failed, after the return
C6_Witness ==
    /\ active
    /\ response.status = "error"
    /\ pc = "returned"
    /\ ret = PyNone
    /\ requests = 0

\* the ids the search-results page carries in its first 10 result-item nodes
PageIdCount(id) ==
    Cardinality({j \in IdPositions : Attr(PageNodes[j], "itemid") = id})

RecordCount(id) == LET HasId(rec) == rec.id = id IN CountIn(ret.v, HasId)

ReturnedList == pc = "returned" /\ active /\ ret.t = "list"

\* C8 as stated: a returned list holds at most MAX_ITEMS records and no two of
\* them carry the same item id.
C8_AtMostTenDistinctIds ==
    ReturnedList =>
        /\ Len(ret.v) <= MAX_ITEMS
        /\ \A k, l \in 1..Len(ret.v) : k # l => ret.v[k].id # ret.v[l].id

\* C8 as amended: a returned list holds at most MAX_ITEMS records, and for each
\* item id no more records than the number of times the id occurs among the
\* first 10 result-item nodes of the search page.
C8_AtMostTenOnePerListedId ==
    ReturnedList =>
        /\ Len(ret.v) <= MAX_ITEMS
        /\ \A k \in 1..Len(ret.v) :
              /\ ret.v[k].t = "MetaRecord"
              /\ RecordCount(ret.v[k].id) <= PageIdCount(ret.v[k].id)

\* the page that lists MAX_ITEMS + 1 items, answered with MAX_ITEMS records
C8_Witness ==
    /\ ReturnedList
    /\ Len(PageNodes) = MAX_ITEMS + 1
    /\ Len(ret.v) = MAX_ITEMS

-----------------------------------------------------------------------------
(* Properties of _parse_author_and_publisher, checked under SpecParse *)

SubFrags == response.html.Ere_sub2_title[1].itertext
DateContent == response.html.datePublished[1].content.v

HasMark(frag) == Contains(AUTHOR_END_MARK, frag)

\* position of the first fragment containing the marker, Len + 1 if there is none
FirstMark ==
    IF \E j \in 1..Len(SubFrags) : HasMark(SubFrags[j])
    THEN CHOOSE j \in 1..Len(SubFrags) :
            HasMark(SubFrags[j]) /\ \A m \in 1..(j - 1) : ~HasMark(SubFrags[m])
    ELSE Len(SubFrags) + 1

AuthorPositions ==
    {j \in 1..(FirstMark - 1) : Strip(SubFrags[j]) \notin {<<>>, <<",">>}}

\* C9: the author list is exactly, in order, the trimmed text of each fragment
\* before the first fragment containing the marker, leaving out the fragments
\* whose trimmed text is empty or ","; the marker fragment is never included.
C9_AuthorsBeforeMarker ==
    pc = "returned" =>
        /\ ret.t = "tuple"
        /\ Len(ret.authors) = Cardinality(AuthorPositions)
        /\ LET idx == AuthorPositions
           IN  \A j \in idx : ret.authors[Rank(idx, j)] = Strip(SubFrags[j])

\* a block with a padded name and a comma before the marker, and a name after it
C9_Witness ==
    /\ pc = "returned"
    /\ Len(SubFrags) = 4
    /\ SubFrags[1] = <<" ", "J", " ">>
    /\ SubFrags[2] = <<" ", ",">>
    /\ SubFrags[3] = <<"J", " ", "(", "A", ")">>
    /\ SubFrags[4] = <<"J">>
    /\ ret.authors = << <<"J">> >>

\* the publisher the heuristic is to produce when `date` is the string the
\* remaining fragments are compared with
PublisherFor(date) ==
    LET matches == {j \in (FirstMark + 1)..Len(SubFrags) : Strip(SubFrags[j]) = date}
    IN  IF matches = {} THEN <<>>
        ELSE SubFrags[(CHOOSE j \in matches : \A m \in matches : j <= m) - 1]

\* C10 as stated: the publisher is the fragment before the first remaining
\* fragment whose trimmed text equals the published-date string, else "".
C10_PublisherBeforeDate ==
    pc = "returned" => ret.publisher = PublisherFor(DateContent)

\* C10 as amended: the remaining fragments are compared with the trimmed
\* published-date string; the publisher is the fragment before the first
\* match, "" if no remaining fragment matches.
C10_PublisherBeforeTrimmedDate ==
    pc = "returned" => ret.publisher = PublisherFor(Strip(DateContent))

\* a padded date content, a padded date fragment after the marker, and the
\* fragment before it returned as the publisher
C10_Witness ==
    /\ pc = "returned"
    /\ DateContent = <<" ", "D", " ">>
    /\ SubFrags = << <<"J">>, <<"(", "A", ")">>, <<"P", " ">>, <<" ", "D">> >>
    /\ ret.publisher = <<"P", " ">>

====
